---- MODULE Spec2Model ----
(***************************************************************************)
(* Density-based topology optimisation drivers of tofea:                   *)
(*   sturges.py    the 2D heat script (module level code, "2d")            *)
(*   topopt_3d.py  run_mech ("mech") and run_temp ("temp")                 *)
(* The design field is flattened to NCells elements.  Real numbers are     *)
(* exact rationals <<n, d>> (d > 0, lowest terms), so arithmetic is the    *)
(* code's arithmetic without floating point rounding.  The physics oracle  *)
(* (fem) is opaque: its results are uninterpreted terms over its input.    *)
(***************************************************************************)
EXTENDS Integers, Sequences, FiniteSets, TLC

(* ---------------- bounds of the model ---------------- *)
\* number of elements of the (flattened) design domain; shape in the code
NCells == 2

(* ---------------- exact rational arithmetic ---------------- *)
Abs(n) == IF n < 0 THEN -n ELSE n

RECURSIVE GCD(_, _)
GCD(a, b) == IF b = 0 THEN a ELSE GCD(b, a % b)

RNorm(n, d) == LET g == GCD(Abs(n), d) IN <<n \div g, d \div g>>

R0 == <<0, 1>>
R1 == <<1, 1>>
RInt(n) == <<n, 1>>

RAdd(a, b) ==
    LET g == GCD(a[2], b[2])
        l == (a[2] \div g) * b[2]
    IN RNorm(a[1] * (l \div a[2]) + b[1] * (l \div b[2]), l)

RNeg(a) == <<-a[1], a[2]>>
RSub(a, b) == RAdd(a, RNeg(b))

RMul(a, b) ==
    LET g1 == GCD(Abs(a[1]), b[2])
        g2 == GCD(Abs(b[1]), a[2])
    IN IF a[1] = 0 \/ b[1] = 0 THEN R0
       ELSE <<(a[1] \div g1) * (b[1] \div g2), (a[2] \div g2) * (b[2] \div g1)>>

\* 1/a for a /= 0
RInv(a) == IF a[1] < 0 THEN <<-a[2], -a[1]>> ELSE <<a[2], a[1]>>
RDiv(a, b) == RMul(a, RInv(b))

RLeq(a, b) == RSub(b, a)[1] >= 0
RLt(a, b) == RSub(b, a)[1] > 0

\* a ** k for a natural exponent k (numpy: 0 ** 0 = 1)
RECURSIVE RPow(_, _)
RPow(a, k) == IF k = 0 THEN R1 ELSE RMul(a, RPow(a, k - 1))

RECURSIVE RSum(_)
RSum(s) == IF s = <<>> THEN R0 ELSE RAdd(Head(s), RSum(Tail(s)))

\* a finite sequence given element by element
SeqOf(f) == f @@ <<>>

\* np.mean
np_mean(s) == RDiv(RSum(s), RInt(Len(s)))

(* ---------------- program constants ---------------- *)
\* the three drivers: sturges.py, run_mech, run_temp
Variants == {"2d", "mech", "temp"}

\* max_its = 20 (sturges.py), max_its = 100 (run_mech, run_temp)
max_its(v) == IF v = "2d" THEN 20 ELSE 100

\* volfrac = 0.4 in all three drivers
volfrac == <<2, 5>>

\* sigma = 0.5 (sturges.py), sigma = 1.0 (run_mech, run_temp)
sigma(v) == IF v = "2d" THEN <<1, 2>> ELSE <<1, 1>>

\* cmin, cmax = 1.0, 1e6
cmin == <<1, 1>>
cmax == <<1000000, 1>>

\* defaults of create_parametrization: e_min=1e-4, e_max=1.0, p=3.0
e_min == <<1, 10000>>
e_max == <<1, 1>>
p == 3

\* penalty of simp_parametrization (default of the parametrization contract)
simp_penalty == 3

\* x0 = np.full(shape, volfrac), flattened by x0.ravel()
x0 == SeqOf([i \in 1..NCells |-> volfrac])

(* ---------------- smoothing filter ---------------- *)
\* the neighbour an element is averaged with; the edge is reflected
Neighbour(i, n) == IF i < n THEN i + 1 ELSE n

\* gaussian_filter(x, sigma): pass-through for scale 0, otherwise the convex
\* average of every element with its neighbour
gaussian_filter(xx, sg) ==
    IF sg[1] = 0 THEN xx
    ELSE SeqOf([i \in 1..Len(xx) |->
                   RMul(<<1, 2>>, RAdd(xx[i], xx[Neighbour(i, Len(xx))]))])

\* adjoint of the (linear) filter: every output hands its gradient back to the
\* two inputs it averaged
gaussian_filter_vjp(g, sg) ==
    IF sg[1] = 0 THEN g
    ELSE SeqOf([j \in 1..Len(g) |->
                   RMul(<<1, 2>>,
                        RAdd(g[j],
                             RSum(SeqOf([i \in 1..Len(g) |->
                                 IF Neighbour(i, Len(g)) = j THEN g[i] ELSE R0]))))])

(* ---------------- material parametrization ---------------- *)
\* the wrong interpolation e_min + x ** p * e_max
create_parametrization_noSpan(sg, emin, emax, pp, xx) ==
    LET f == gaussian_filter(xx, sg)
    IN SeqOf([i \in 1..Len(xx) |-> RAdd(emin, RMul(RPow(f[i], pp), emax))])

\* create_parametrization(shape, sigma, e_min, e_max, p)(x); np.reshape only
\* re-indexes the flattened field
create_parametrization(sg, emin, emax, pp, xx) ==
    LET f == gaussian_filter(xx, sg)
    IN SeqOf([i \in 1..Len(xx) |-> RAdd(emin, RMul(RPow(f[i], pp), RSub(emax, emin)))])

\* simp_parametrization(shape, sigma, cmin, cmax)(x)
simp_parametrization(sg, vmin, vmax, xx) ==
    LET f == gaussian_filter(xx, sg)
    IN SeqOf([i \in 1..Len(xx) |->
           RAdd(vmin, RMul(RPow(f[i], simp_penalty), RSub(vmax, vmin)))])

\* the parametrization each driver builds
parametrization(v, xx) ==
    IF v = "2d"
    THEN simp_parametrization(sigma(v), cmin, cmax, xx)
    ELSE create_parametrization(sigma(v), e_min, e_max, p, xx)

(* ---------------- physics oracle (opaque) ---------------- *)
Term(op, j, at) == [op |-> op, j |-> j, at |-> at]

\* fem(design): the scalar objective of the solve
fem(design) == Term("fem", 0, <<design>>)

\* objective(x) of sturges.py
objective(xx) == fem(parametrization("2d", xx))

\* dc of value_and_grad(objective)(x), flattened by dc.ravel()
objective_grad(xx) ==
    SeqOf([j \in 1..Len(xx) |-> Term("d_objective", j, <<xx>>)])

\* tensor_jacobian_product(parametrization)(x, dc).ravel(), dc from
\* value_and_grad(fem)(design)
parametrization_tjp(xx, design) ==
    SeqOf([j \in 1..Len(xx) |-> Term("tjp_parametrization", j, <<xx>>)])

(* ---------------- volume ---------------- *)
\* volume(x) of sturges.py
volume(xx) ==
    LET pr == parametrization("2d", xx)
    IN np_mean(SeqOf([i \in 1..Len(xx) |-> RDiv(RSub(pr[i], cmin), RSub(cmax, cmin))]))

\* g of value_and_grad(volume)(x): the chain rule through mean, normalisation,
\* power law and filter
volume_grad(xx) ==
    LET n == Len(xx)
        f == gaussian_filter(xx, sigma("2d"))
        gnorm == SeqOf([i \in 1..n |-> RDiv(R1, RInt(n))])
        gprop == SeqOf([i \in 1..n |-> RDiv(gnorm[i], RSub(cmax, cmin))])
        gf == SeqOf([i \in 1..n |->
                  RMul(gprop[i],
                       RMul(RMul(RInt(simp_penalty), RPow(f[i], simp_penalty - 1)),
                            RSub(cmax, cmin)))])
    IN gaussian_filter_vjp(gf, sigma("2d"))

\* g of value_and_grad(np.mean)(x)
mean_grad(xx) == SeqOf([i \in 1..Len(xx) |-> RDiv(R1, RInt(Len(xx)))])

(* ---------------- the callbacks handed to the optimizer ---------------- *)
\* volume_constraint writing the gradient without testing gd.size
volume_constraint_alwaysWrite(v, xx, buf) ==
    LET val == IF v = "2d" THEN volume(xx) ELSE np_mean(xx)
        g == IF v = "2d" THEN volume_grad(xx) ELSE mean_grad(xx)
    IN [ret |-> <<RSub(val, volfrac)>>, gd |-> g, x |-> xx]

\* volume_constraint(x, gd): the value returned, the buffer and x after the call
volume_constraint(v, xx, buf) ==
    LET val == IF v = "2d" THEN volume(xx) ELSE np_mean(xx)
        g == IF v = "2d" THEN volume_grad(xx) ELSE mean_grad(xx)
    IN [ret |-> <<RSub(val, volfrac)>>,
        gd |-> IF Len(buf) > 0 THEN g ELSE buf,
        x |-> xx]

\* what the observer shows after a completed redraw
Redraw(obs, plt) == IF obs = "stub" THEN plt ELSE "current"

\* nlopt_obj that catches a failed solve and returns the objective term anyway
nlopt_obj_swallow(v, xx, buf, oracle, obs, plt) ==
    LET design == parametrization(v, xx)
        cval == IF v = "2d" THEN objective(xx) ELSE fem(design)
        dc == IF v = "2d" THEN objective_grad(xx) ELSE parametrization_tjp(xx, design)
        out == IF Len(buf) > 0 THEN dc ELSE buf
        n == IF v = "2d" THEN 2 ELSE 1
    IN IF obs = "fail"
       THEN [ret |-> <<>>, gd |-> out, x |-> xx, solves |-> n,
             error |-> "ObserverFailure", plot |-> "stale"]
       ELSE [ret |-> <<cval>>, gd |-> out, x |-> xx, solves |-> n,
             error |-> "none", plot |-> Redraw(obs, plt)]

\* nlopt_obj(x, gd).  oracle: "ok", or the solve that fails ("fail1": the
\* value-and-gradient solve, "fail2": fem.heat_distribution of sturges.py);
\* obs: the observer's calls succeed ("ok"), raise ("fail"), or the observer
\* is a no-op ("stub").  An exception leaves the function without a value.
nlopt_obj(v, xx, buf, oracle, obs, plt) ==
    LET design == parametrization(v, xx)
        cval == IF v = "2d" THEN objective(xx) ELSE fem(design)
        dc == IF v = "2d" THEN objective_grad(xx) ELSE parametrization_tjp(xx, design)
        out == IF Len(buf) > 0 THEN dc ELSE buf
        n == IF v = "2d" THEN 2 ELSE 1
    IN IF oracle = "fail1"
       THEN [ret |-> <<>>, gd |-> buf, x |-> xx, solves |-> 1,
             error |-> "OracleFailure", plot |-> plt]
       ELSE IF v = "2d" /\ oracle = "fail2"
       THEN [ret |-> <<>>, gd |-> buf, x |-> xx, solves |-> 2,
             error |-> "OracleFailure", plot |-> plt]
       ELSE IF obs = "fail"
       THEN [ret |-> <<>>, gd |-> out, x |-> xx, solves |-> n,
             error |-> "ObserverFailure", plot |-> "stale"]
       ELSE [ret |-> <<cval>>, gd |-> out, x |-> xx, solves |-> n,
             error |-> "none", plot |-> Redraw(obs, plt)]

(* ---------------- the optimizer as the drivers configure it ---------------- *)
NoOpt == [maxeval |-> 0, lb |-> <<>>, ub |-> <<>>, tol |-> <<>>, set |-> FALSE]

\* the configuration without set_maxeval (nlopt's default 0: no limit)
opt_config_noMaxeval(v) ==
    [maxeval |-> 0, lb |-> <<R0>>, ub |-> <<R1>>,
     tol |-> IF v = "2d" THEN <<(<<1, 1000000>>)>> ELSE <<>>, set |-> TRUE]

\* add_inequality_constraint (tol: the tolerance argument, <<>> when it is
\* omitted), set_lower_bounds(0), set_upper_bounds(1), set_maxeval(max_its)
opt_config(v) ==
    [maxeval |-> max_its(v), lb |-> <<R0>>, ub |-> <<R1>>,
     tol |-> IF v = "2d" THEN <<(<<1, 1000000>>)>> ELSE <<>>, set |-> TRUE]

\* set_maxeval: the optimizer stops once the objective was evaluated maxeval times
stop_evals(o, nevals) == o.maxeval > 0 /\ nevals >= o.maxeval

\* optimize(x0.ravel()): the first evaluation is at x0; a later trial point is
\* x0 again or a vertex of the box the bounds describe
TrialPoints(o, cur, nevals) ==
    IF nevals = 0 THEN {x0}
    ELSE {x0} \cup [1..Len(cur) -> {o.lb[1], o.ub[1]}]

\* a gradient buffer as the optimizer passes it: size 0 or one entry per element
Buffers(n) == {<<>>, SeqOf([j \in 1..n |-> Term("zero", j, <<>>)])}

\* the outcomes of the oracle and the observer during one objective call
Env(v) ==
    {e \in [oracle : {"ok", "fail1", "fail2"}, obs : {"ok", "fail"}] :
        /\ (e.oracle = "fail2" => v = "2d")
        /\ (e.oracle /= "ok" => e.obs = "ok")}

(* ---------------- state ---------------- *)
VARIABLES
    variant,        \* which driver runs
    pc,             \* "setup", "objective", "constraint", "terminal", "raised"
    x,              \* the optimizer's iterate (the array the callbacks receive)
    arg,            \* x and the gradient buffer as passed to the last callback
    gd,             \* the gradient buffer after the last callback
    ret,            \* <<value>> returned by the last callback, <<>> if none
    nObj,           \* invocations of nlopt_obj
    nCon,           \* invocations of volume_constraint
    solves,         \* oracle solves started by the last nlopt_obj invocation
    plot,           \* what the figure shows: "none", "x0", "current", "stale"
    opt,            \* the optimizer's configuration
    design,         \* <<design>> returned by opt.optimize, <<>> before
    error,          \* the exception that left the run, "none" otherwise
    stub,           \* the last nlopt_obj invocation with the observer a no-op
    oracleFailed,   \* a solve of the oracle has failed
    observerFailed, \* a call of the observer has raised
    cfg,            \* arguments given to create_parametrization
    ppc,            \* "off", "start", "created", "applied", "called"
    pfield,         \* the field given to the parametrization
    pdesign,        \* the property field it returned
    poracle         \* oracle calls made on property fields

vars == <<variant, pc, x, arg, gd, ret, nObj, nCon, solves, plot, opt, design,
          error, stub, oracleFailed, observerFailed, cfg, ppc, pfield, pdesign,
          poracle>>

driverVars == <<variant, pc, x, arg, gd, ret, nObj, nCon, solves, plot, opt,
                design, error, stub, oracleFailed, observerFailed>>

paramVars == <<cfg, ppc, pfield, pdesign, poracle>>

NoArg == [x |-> <<>>, gd |-> <<>>]
NoStub == [ret |-> <<>>, gd |-> <<>>, error |-> "none"]
NoCfg == [sigma |-> R0, e_min |-> e_min, e_max |-> e_max, p |-> p, volfrac |-> volfrac]

(* ---------------- the drivers ---------------- *)
\* program start of one of the three drivers
Init ==
    /\ variant \in Variants
    /\ pc = "setup"
    /\ x = x0
    /\ arg = NoArg
    /\ gd = <<>>
    /\ ret = <<>>
    /\ nObj = 0
    /\ nCon = 0
    /\ solves = 0
    /\ plot = "none"
    /\ opt = NoOpt
    /\ design = <<>>
    /\ error = "none"
    /\ stub = NoStub
    /\ oracleFailed = FALSE
    /\ observerFailed = FALSE
    /\ cfg = NoCfg
    /\ ppc = "off"
    /\ pfield = <<>>
    /\ pdesign = <<>>
    /\ poracle = 0

\* everything before opt.optimize: sturges.py solves once for umax
\* (fem.heat_distribution(x0, load)), all drivers draw the initial images and
\* configure the optimizer
Setup ==
    /\ pc = "setup"
    /\ \E ok \in BOOLEAN :
        /\ (~ok => variant = "2d")
        /\ IF ok
           THEN /\ pc' = "objective"
                /\ plot' = "x0"
                /\ opt' = opt_config(variant)
                /\ UNCHANGED <<error, oracleFailed, stub>>
           ELSE /\ pc' = "raised"
                /\ error' = "OracleFailure"
                /\ oracleFailed' = TRUE
                /\ stub' = [stub EXCEPT !.error = "OracleFailure"]
                /\ UNCHANGED <<plot, opt>>
    /\ UNCHANGED <<variant, x, arg, gd, ret, nObj, nCon, solves, design,
                   observerFailed>>
    /\ UNCHANGED paramVars

\* the optimizer evaluates the objective at a trial point; an exception of the
\* callback leaves opt.optimize
NloptObj ==
    /\ pc = "objective"
    /\ ~stop_evals(opt, nObj)
    /\ \E xx \in TrialPoints(opt, x, nObj), buf \in Buffers(NCells), e \in Env(variant) :
        \E r \in {nlopt_obj(variant, xx, buf, e.oracle, e.obs, plot)},
           s \in {nlopt_obj(variant, xx, buf, e.oracle, "stub", plot)} :
           /\ arg' = [x |-> xx, gd |-> buf]
           /\ x' = r.x
           /\ gd' = r.gd
           /\ ret' = r.ret
           /\ solves' = r.solves
           /\ plot' = r.plot
           /\ error' = r.error
           /\ stub' = [ret |-> s.ret, gd |-> s.gd, error |-> s.error]
           /\ pc' = IF r.error = "none" THEN "constraint" ELSE "raised"
           /\ oracleFailed' = (oracleFailed \/ e.oracle /= "ok")
           /\ observerFailed' = (observerFailed \/ e.obs = "fail")
    /\ nObj' = nObj + 1
    /\ UNCHANGED <<variant, nCon, opt, design>>
    /\ UNCHANGED paramVars

\* the optimizer evaluates the constraint at the same point
VolumeConstraint ==
    /\ pc = "constraint"
    /\ \E buf \in Buffers(NCells) :
        \E r \in {volume_constraint(variant, x, buf)} :
           /\ arg' = [x |-> x, gd |-> buf]
           /\ x' = r.x
           /\ gd' = r.gd
           /\ ret' = r.ret
    /\ nCon' = nCon + 1
    /\ pc' = "objective"
    /\ UNCHANGED <<variant, nObj, solves, plot, opt, design, error, stub,
                   oracleFailed, observerFailed>>
    /\ UNCHANGED paramVars

\* opt.optimize returns: the evaluation budget is used up, or the optimizer
\* stops by a criterion of its own
Terminate ==
    /\ pc = "objective"
    /\ nObj >= 1
    /\ design' = <<x>>
    /\ pc' = "terminal"
    /\ UNCHANGED <<variant, x, arg, gd, ret, nObj, nCon, solves, plot, opt,
                   error, stub, oracleFailed, observerFailed>>
    /\ UNCHANGED paramVars

Next == Setup \/ NloptObj \/ VolumeConstraint \/ Terminate

Spec == Init /\ [][Next]_vars

(* ---------------- a parametrization built from given arguments ---------------- *)
\* property values given as e_min and e_max
PropValues == {e_min, <<1, 2>>, e_max}

\* arguments of create_parametrization (sigma, e_min, e_max, p) and the volume
\* fraction of the run that uses it
Cfgs ==
    [sigma : {R0, R1}, e_min : PropValues, e_max : PropValues, p : 0..p,
     volfrac : {R0, volfrac, R1}]

\* design fields with every element in [0, 1]
Fields == [1..NCells -> {RNorm(k, volfrac[2]) : k \in 0..volfrac[2]}]

InitP ==
    /\ variant = "mech"
    /\ pc = "off"
    /\ x = x0
    /\ arg = NoArg
    /\ gd = <<>>
    /\ ret = <<>>
    /\ nObj = 0
    /\ nCon = 0
    /\ solves = 0
    /\ plot = "none"
    /\ opt = NoOpt
    /\ design = <<>>
    /\ error = "none"
    /\ stub = NoStub
    /\ oracleFailed = FALSE
    /\ observerFailed = FALSE
    /\ cfg \in Cfgs
    /\ ppc = "start"
    /\ pfield = <<>>
    /\ pdesign = <<>>
    /\ poracle = 0

\* x0 = np.full(shape, volfrac); parametrization = create_parametrization(...):
\* the closure is returned whatever the arguments are
PCreate ==
    /\ ppc = "start"
    /\ pfield' = SeqOf([i \in 1..NCells |-> cfg.volfrac])
    /\ ppc' = "created"
    /\ UNCHANGED <<cfg, pdesign, poracle>>
    /\ UNCHANGED driverVars

\* design = parametrization(x)
PApply ==
    /\ ppc = "created"
    /\ \E xx \in Fields :
        /\ pfield' = xx
        /\ pdesign' = create_parametrization(cfg.sigma, cfg.e_min, cfg.e_max, cfg.p, xx)
    /\ ppc' = "applied"
    /\ UNCHANGED <<cfg, poracle>>
    /\ UNCHANGED driverVars

\* c, dc = value_and_grad(fem)(design)
POracle ==
    /\ ppc = "applied"
    /\ poracle' = poracle + 1
    /\ ppc' = "called"
    /\ UNCHANGED <<cfg, pfield, pdesign>>
    /\ UNCHANGED driverVars

NextP == PCreate \/ PApply \/ POracle

SpecParam == InitP /\ [][NextP]_vars

(* ---------------- properties ---------------- *)
\* nlopt_obj has returned to the optimizer
ObjectiveReturned == pc = "constraint"

\* volume_constraint has returned to the optimizer (nothing was called since)
ConstraintReturned == pc \in {"objective", "terminal"} /\ nCon > 0

\* nlopt_obj was the last callback invoked, whether it returned or raised
ObjectiveInvoked == pc = "constraint" \/ (pc = "raised" /\ nObj > 0)

ObjectiveGradient(v, xx) ==
    IF v = "2d" THEN objective_grad(xx)
    ELSE parametrization_tjp(xx, parametrization(v, xx))

ConstraintGradient(v, xx) ==
    IF v = "2d" THEN volume_grad(xx) ELSE mean_grad(xx)

\* a callback that returned: it returned a value, left x as passed, left a
\* buffer of size 0 as passed and filled any other buffer with the gradient g
BufferContract(g) ==
    /\ Len(ret) = 1
    /\ x = arg.x
    /\ Len(arg.gd) = 0 => gd = arg.gd
    /\ Len(arg.gd) > 0 => (Len(gd) = Len(x) /\ gd = g)

\* C2: both callbacks take (x, gradient buffer) and return the value; they
\* write the buffer only when its size is not 0, then it holds one gradient
\* entry per entry of x; x itself is never changed
C2_GradientBufferContract ==
    /\ ObjectiveReturned => BufferContract(ObjectiveGradient(variant, x))
    /\ ConstraintReturned => BufferContract(ConstraintGradient(variant, x))

\* C2 witness: volume_constraint was probed with a buffer of size 0 and
\* returned its value
C2_Witness ==
    /\ ConstraintReturned
    /\ arg.gd = <<>>
    /\ gd = <<>>
    /\ Len(ret) = 1
    /\ x = arg.x

\* (parametrize(x) - prop_min) / (prop_max - prop_min), element by element
normalized_property(v, xx) ==
    LET pr == parametrization(v, xx)
        lo == IF v = "2d" THEN cmin ELSE e_min
        hi == IF v = "2d" THEN cmax ELSE e_max
    IN SeqOf([i \in 1..Len(xx) |-> RDiv(RSub(pr[i], lo), RSub(hi, lo))])

\* C3: in every driver volume_constraint(x) returns
\* mean(normalized_property(x)) - target fraction, the property taken through
\* the parametrization of x
C3_ConstraintThroughParametrization ==
    ConstraintReturned =>
        ret = <<RSub(np_mean(normalized_property(variant, x)), volfrac)>>

\* C4: an invocation of the objective callback starts exactly one oracle solve
C4_OneSolvePerInvocation == ObjectiveReturned => solves = 1

\* C5: a failure of the observer does not abort the run: the callback still
\* returns its value and the run goes on
C5_ObserverFailureRecovered ==
    observerFailed => (pc /= "raised" /\ error = "none")

\* arguments the setup is to reject
InvalidCfg(c) ==
    \/ ~RLt(c.e_min, c.e_max)
    \/ c.p <= 0
    \/ ~(RLt(R0, c.volfrac) /\ RLt(c.volfrac, R1))

\* C6: with prop_min >= prop_max, penalty <= 0 or a volume fraction outside
\* (0, 1) the setup raises before any oracle call, so no such run reaches an
\* oracle call
C6_InvalidConfigurationRejected ==
    InvalidCfg(cfg) => (poracle = 0 /\ ppc /= "called")

\* C7: a failed solve of the oracle is fatal: the exception leaves the run, no
\* value is returned for that x, no evaluator is invoked afterwards and no
\* design is returned
C7_OracleFailureFatal ==
    /\ [](oracleFailed =>
            /\ pc = "raised"
            /\ error = "OracleFailure"
            /\ ret = <<>>
            /\ design = <<>>)
    /\ [][oracleFailed => (nObj' = nObj /\ nCon' = nCon /\ design' = design)]_vars

\* C7 witness: a solve failed inside nlopt_obj and the run was left
C7_Witness ==
    /\ oracleFailed
    /\ nObj > 0
    /\ pc = "raised"
    /\ error = "OracleFailure"
    /\ ret = <<>>

\* the parametrization was applied with prop_min < prop_max and a positive
\* penalty
ValidApplied ==
    /\ ppc \in {"applied", "called"}
    /\ RLt(cfg.e_min, cfg.e_max)
    /\ cfg.p >= 1

\* C8: for x within [0, 1] and prop_min < prop_max every entry of
\* parametrize(x) lies in [prop_min, prop_max]; with a pass-through filter an
\* all-zero x gives prop_min everywhere and an all-one x prop_max everywhere;
\* an entry grows with the filtered density
C8_ParametrizeRange ==
    ValidApplied =>
        LET n == Len(pfield)
            f == gaussian_filter(pfield, cfg.sigma)
        IN /\ Len(pdesign) = n
           /\ \A i \in 1..n :
                  RLeq(cfg.e_min, pdesign[i]) /\ RLeq(pdesign[i], cfg.e_max)
           /\ (cfg.sigma = R0 /\ \A i \in 1..n : pfield[i] = R0)
                  => \A i \in 1..n : pdesign[i] = cfg.e_min
           /\ (cfg.sigma = R0 /\ \A i \in 1..n : pfield[i] = R1)
                  => \A i \in 1..n : pdesign[i] = cfg.e_max
           /\ \A i, j \in 1..n :
                  RLeq(f[i], f[j]) => RLeq(pdesign[i], pdesign[j])

\* C8 witness: an all-one field through a pass-through filter, penalty 3
C8_Witness ==
    /\ ValidApplied
    /\ cfg.sigma = R0
    /\ cfg.p = p
    /\ \A i \in 1..Len(pfield) : pfield[i] = R1
    /\ \A i \in 1..Len(pdesign) : pdesign[i] = cfg.e_max

\* C9: the run with the observer and the run with a no-op observer receive the
\* same value and gradient for every x, so they go the same way
C9_ObserverIndependence ==
    ObjectiveInvoked =>
        /\ stub.ret = ret
        /\ stub.gd = gd
        /\ stub.error = error

\* C10: every driver registers the volume constraint with an explicit
\* positive tolerance
C10_ExplicitTolerance ==
    opt.set => (Len(opt.tol) = 1 /\ RLt(R0, opt.tol[1]))

====
